---- MODULE Spec2Model ----
(***************************************************************************)
(* A model of the PDF finder of src/collecte: the module-level blacklist   *)
(* load of dropbox_client.py, the Streamlit caller of app.py and the       *)
(* download loop of pdf_downloader.py (find_and_download_pdfs,             *)
(* _search_and_download, _download_pdf_to_dropbox, the metadata load and   *)
(* save).  Python strings are sequences of one-character strings, so that  *)
(* str.lower(), the `in` substring test, str.split and urlparse are        *)
(* computed rather than assumed.                                           *)
(***************************************************************************)
EXTENDS Integers, Sequences, FiniteSets, TLC

\* ------------------------------------------------------------------ bounds
\* How many items one search page holds at most.
MaxItems == 2
\* How many pages of one query the search engine answers with items.
MaxResultPages == 1
\* How many times find_and_download_pdfs is called in one behaviour.
MaxRuns == 2

\* ------------------------------------------------------- Python's strings
\* None where a str is expected: a text no str of characters equals
None == << "None" >>
\* no exception
NoError == "none"
EmptyStr == << >>

Upper == <<"A","B","C","D","E","F","G","H","I","J","K","L","M",
           "N","O","P","Q","R","S","T","U","V","W","X","Y","Z">>
LowerLetters == <<"a","b","c","d","e","f","g","h","i","j","k","l","m",
                  "n","o","p","q","r","s","t","u","v","w","x","y","z">>
Digits == {"0","1","2","3","4","5","6","7","8","9"}

\* str.lower() on one character
LowerChar(c) ==
  IF \E i \in 1..26 : Upper[i] = c
  THEN LowerLetters[CHOOSE i \in 1..26 : Upper[i] = c]
  ELSE c

\* str.lower()
Lower(s) == [i \in 1..Len(s) |-> LowerChar(s[i])]

\* Python's `s in t` for strings
IsSubstr(s, t) ==
  \E i \in 0..(Len(t) - Len(s)) : SubSeq(t, i + 1, i + Len(s)) = s

\* str.find(c) for a one-character c: 0 when absent, else the 1-based index
Find(s, c) ==
  IF \E i \in 1..Len(s) : s[i] = c
  THEN CHOOSE i \in 1..Len(s) : s[i] = c /\ \A j \in 1..(i - 1) : s[j] /= c
  ELSE 0

\* str.split(sep) for a one-character sep: always at least one piece
RECURSIVE Split(_, _)
Split(s, sep) ==
  LET i == Find(s, sep)
  IN IF i = 0 THEN << s >>
     ELSE << SubSeq(s, 1, i - 1) >> \o Split(SubSeq(s, i + 1, Len(s)), sep)

IsLetter(c) == \E i \in 1..26 : Upper[i] = c \/ LowerLetters[i] = c
IsSchemeChar(c) == IsLetter(c) \/ c \in Digits \/ c \in {"+", "-", "."}

\* urllib.parse.urlsplit: the text left once a leading scheme is removed
AfterScheme(url) ==
  LET i == Find(url, ":")
  IN IF i > 1 /\ IsLetter(url[1]) /\ \A j \in 1..(i - 1) : IsSchemeChar(url[j])
     THEN SubSeq(url, i + 1, Len(url))
     ELSE url

\* urlparse(url).netloc: what follows "//" up to the first of / ? #
Netloc(url) ==
  LET r == AfterScheme(url)
  IN IF Len(r) >= 2 /\ r[1] = "/" /\ r[2] = "/"
     THEN LET rest == SubSeq(r, 3, Len(r))
              stops == {i \in 1..Len(rest) : rest[i] \in {"/", "?", "#"}}
              stop == IF stops = {} THEN Len(rest) + 1
                      ELSE CHOOSE i \in stops : \A j \in stops : i <= j
          IN SubSeq(rest, 1, stop - 1)
     ELSE EmptyStr

\* urlparse(url).path
UrlPath(url) ==
  LET r == AfterScheme(url)
      body == IF Len(r) >= 2 /\ r[1] = "/" /\ r[2] = "/"
              THEN SubSeq(r, 3 + Len(Netloc(url)), Len(r))
              ELSE r
      stops == {i \in 1..Len(body) : body[i] \in {"?", "#"}}
      stop == IF stops = {} THEN Len(body) + 1
              ELSE CHOOSE i \in stops : \A j \in stops : i <= j
  IN SubSeq(body, 1, stop - 1)

\* str.split(sep) for a longer separator
RECURSIVE SplitOn(_, _)
SplitOn(s, sep) ==
  LET hits == {i \in 1..(Len(s) - Len(sep) + 1) : SubSeq(s, i, i + Len(sep) - 1) = sep}
  IN IF hits = {} THEN << s >>
     ELSE LET i == CHOOSE h \in hits : \A k \in hits : h <= k
          IN << SubSeq(s, 1, i - 1) >> \o SplitOn(SubSeq(s, i + Len(sep), Len(s)), sep)

\* str.strip(chars): drop the leading and trailing characters that are in chars
RECURSIVE LStrip(_, _)
LStrip(s, chars) ==
  IF s /= << >> /\ Head(s) \in chars THEN LStrip(Tail(s), chars) ELSE s
RECURSIVE RStrip(_, _)
RStrip(s, chars) ==
  IF s /= << >> /\ s[Len(s)] \in chars THEN RStrip(SubSeq(s, 1, Len(s) - 1), chars) ELSE s
Strip(s, chars) == RStrip(LStrip(s, chars), chars)

\* str.replace(c, "")
Without(s, c) == SelectSeq(s, LAMBDA x : x /= c)

\* os.path.basename: what follows the last "/"
Basename(path) ==
  LET slashes == {i \in 1..Len(path) : path[i] = "/"}
      last == IF slashes = {} THEN 0 ELSE CHOOSE i \in slashes : \A j \in slashes : j <= i
  IN SubSeq(path, last + 1, Len(path))

\* ---------------------------------------------------- the program's texts
Space == <<" ">>
Slash == <<"/">>
FilenameEq == <<"f","i","l","e","n","a","m","e","=">>
UnknownPdf == <<"u","n","k","n","o","w","n",".","p","d","f">>
FiletypePdf == <<"f","i","l","e","t","y","p","e",":","p","d","f">>
Root == <<"/","C","b","C","R","s","/">>
METADATA_COLUMNS == <<"company", "year", "url", "filename">>
\* range(1, 100, 10)
FirstStart == 1
StopStart == 100
PageSize == 10

\* ------------------------------------------------- the inputs of the model
Acme == <<"A","c","m","e">>
Keywords == <<"c","b","c","r">>
Y2022 == <<"2","0","2","2">>
Y2023 == <<"2","0","2","3">>
Years == << Y2022, Y2023 >>
BadCom == <<"B","A","D",".","c","o","m">>
\* a three-label host whose path holds the target in another case
LinkA == <<"h","t","t","p","s",":","/","/","c","d","n",".","e","x","a","m","p","l","e",".","o","r","g","/","A","c","m","e","_","c","b","c","r",".","p","d","f">>
\* a two-label host, without the target
LinkB == <<"h","t","t","p","s",":","/","/","e","x","a","m","p","l","e",".","o","r","g","/","r",".","p","d","f">>
\* a host the blacklist entry BAD.com matches once both are lowered
LinkC == <<"h","t","t","p","s",":","/","/","w","w","w",".","B","a","d",".","c","o","m","/","a","c","m","e",".","p","d","f">>
\* a one-label host
LinkD == <<"h","t","t","p","s",":","/","/","l","o","c","a","l","h","o","s","t","/","a","c","m","e",".","p","d","f">>
Links == {LinkA, LinkB, LinkC, LinkD}
DispositionA == <<"a","t","t","a","c","h","m","e","n","t",";"," ","f","i","l","e","n","a","m","e","=","\"","A","c","m","e"," ","2","0","2","3",".","p","d","f","\"">>
\* Content-Disposition headers: a bare hint, the parameter name in capitals,
\* single quotes, no filename parameter, mixed case
HeaderPlain == <<"a","t","t","a","c","h","m","e","n","t",";"," ","f","i","l","e","n","a","m","e","=","a","b","c",".","p","d","f">>
HeaderUpper == <<"a","t","t","a","c","h","m","e","n","t",";"," ","F","I","L","E","N","A","M","E","=","\"","x",".","p","d","f","\"">>
HeaderSingle == <<"i","n","l","i","n","e",";"," ","f","i","l","e","n","a","m","e","=","'","q"," ","r",".","p","d","f","'">>
HeaderInline == <<"i","n","l","i","n","e">>
HeaderMixed == <<"A","t","t","a","c","h","m","e","n","t",";"," ","F","i","l","e","n","a","m","e","=","Y",".","P","D","F">>
\* response.headers.get("Content-Disposition", ""): EmptyStr when there is none
Dispositions ==
  {EmptyStr, DispositionA, HeaderPlain, HeaderUpper, HeaderSingle, HeaderInline, HeaderMixed}
\* urls with a query, an empty path segment, no path, a fragment, a directory
UrlQuery == <<"h","t","t","p","s",":","/","/","x",".","c","o","m","/","r","e","p","o","r","t","s","/","a","b","c",".","p","d","f","?","x","=","1">>
UrlRoot == <<"h","t","t","p","s",":","/","/","x",".","c","o","m","/">>
UrlBare == <<"h","t","t","p","s",":","/","/","x",".","c","o","m">>
UrlFragment == <<"h","t","t","p","s",":","/","/","x",".","c","o","m","/","r","/","a","b","c",".","p","d","f","#","p","2">>
UrlDir == <<"h","t","t","p","s",":","/","/","x",".","c","o","m","/","a","/","b","/">>
UrlPlain == <<"h","t","t","p","s",":","/","/","x",".","c","o","m","/","d",".","p","d","f">>
UrlQueryOnly == <<"h","t","t","p","s",":","/","/","x",".","c","o","m","/","?","f","=","a",".","p","d","f">>
PdfUrls ==
  Links \cup {UrlQuery, UrlRoot, UrlBare, UrlFragment, UrlDir, UrlPlain, UrlQueryOnly}
\* the Content-Disposition header the server of a link answers with
ContentDisposition(link) == IF link = LinkA THEN DispositionA ELSE EmptyStr
\* a blob of the remote store that does not exist
NotFound == [exists |-> FALSE, columns |-> << >>, rows |-> << >>]
Blob(columns, rows) == [exists |-> TRUE, columns |-> columns, rows |-> rows]
BLACKLIST_COLUMNS == << "Blacklisted URLs" >>
\* the blacklist.csv blobs: absent, or one entry
BlacklistBlobs == {NotFound, Blob(BLACKLIST_COLUMNS, << BadCom >>)}
\* csv_df: None, or the CompanyName column of the uploaded file
NoCsv == [given |-> FALSE, rows |-> << >>]
Csv(rows) == [given |-> TRUE, rows |-> rows]
\* the (csv_df, company_name) pairs find_and_download_pdfs is called with
CallInputs ==
  { <<NoCsv, Acme>>, <<NoCsv, None>>, <<NoCsv, EmptyStr>>,
    << Csv(<< EmptyStr >>), None >>, << Csv(<< EmptyStr, Acme >>), None >> }

\* --------------------------------------------------- pdf_downloader.py
\* _extract_original_filename(response, pdf_url)
ExtractOriginalFilename(content_disp, pdf_url) ==
  LET parts == SplitOn(content_disp, FilenameEq)
      fromUrl == Basename(UrlPath(pdf_url))
      filename == IF fromUrl = EmptyStr THEN UnknownPdf ELSE fromUrl
  IN IF IsSubstr(FilenameEq, Lower(content_disp)) /\ Len(parts) > 1
     THEN Without(Without(Strip(Strip(parts[2], {" "}), {"\"", ";", "'"}), "\""), "'")
     ELSE Split(Split(filename, "?")[1], "#")[1]

\* line 140: any(bad_url.lower() in link.lower() for bad_url in blacklist_urls)
IsBlacklistedCaseSensitive(link, blacklist) ==
  \E bad_url \in blacklist : IsSubstr(bad_url, link)
IsBlacklisted(link, blacklist) ==
  \E bad_url \in blacklist : IsSubstr(Lower(bad_url), Lower(link))

\* line 145: restrict_url and company.lower() not in link.lower()
IsRestricted(restrict, comp, link) ==
  restrict /\ ~IsSubstr(Lower(comp), Lower(link))

\* line 149: link in metadata_df["url"].values
NeverInMetadata(link, df) == FALSE
InMetadata(link, df) == \E i \in 1..Len(df.rows) : df.rows[i].url = link

\* line 154: urlparse(link).netloc.split(".")
HostLabels(link) == Split(Netloc(link), ".")
\* line 154: the index [1] of Python, the second piece
CompanyFromUrl(link) == HostLabels(link)[2]

\* line 110: f"{company} {keywords} {year} filetype:pdf"
Query(comp, year) ==
  comp \o Space \o Keywords \o Space \o year \o Space \o FiletypePdf

\* line 191: f"/CbCRs/{company}/{original_filename}"
DropboxPath(comp, original_filename) == Root \o comp \o Slash \o original_filename

\* lines 160-163: the row of metadata_df; year is the str of the years list
NewRow(comp, year, link, original_filename) ==
  [company |-> comp, year |-> [type |-> "str", text |-> year],
   url |-> link, filename |-> original_filename]

\* lines 251-252: pd.DataFrame(columns=columns)
EmptyMetadata == [none |-> FALSE, columns |-> METADATA_COLUMNS, rows |-> << >>]
\* a frame variable that holds None
NoFrame == [none |-> TRUE, columns |-> << >>, rows |-> << >>]

\* line 164: pd.concat([metadata_df, new_row], ignore_index=True)
Concat(df, row) == [none |-> FALSE, columns |-> df.columns, rows |-> Append(df.rows, row)]

\* DataFrame.to_csv: a header line, then each cell as its text, whatever its type
ToCsv(df) ==
  [exists |-> TRUE, columns |-> df.columns,
   rows |-> [i \in 1..Len(df.rows) |->
               [company |-> df.rows[i].company, year |-> df.rows[i].year.text,
                url |-> df.rows[i].url, filename |-> df.rows[i].filename]]]
\* pd.read_csv: a column of digits is read back as int64
ReadCsv(blob) ==
  [none |-> FALSE, columns |-> blob.columns,
   rows |-> [i \in 1..Len(blob.rows) |->
               [company |-> blob.rows[i].company,
                year |-> [type |-> "int64", text |-> blob.rows[i].year],
                url |-> blob.rows[i].url, filename |-> blob.rows[i].filename]]]

\* ----------------------------------------------------------------- state
VARIABLES
  remote_metadata,   \* the blob at METADATA_PATH: NotFound or its CSV content
  remote_blacklist,  \* the blob at BLACKLIST_PATH: NotFound or its entries
  blacklist_df,      \* dropbox_client.blacklist_df, NoFrame before line 73
  blacklist_urls,    \* dropbox_client.blacklist_urls, empty before line 74
  stop_event,        \* st.session_state.stop_event: is the Event set
  ui,                \* the Streamlit script: "ready", or "joining" the thread
  pc,                \* where the worker is
  error,             \* the exception that ended the worker, or None
  csv_df, company_name, restrict_url,     \* the arguments of the call
  metadata_df,       \* the local of both functions: None or a data frame
  company, year_i, query, start_index,  \* locals of _search_and_download
  items,             \* how many items of the page the loop of line 137 has yet to take
  starts,            \* the start= of the search requests sent for the current query
  runs,              \* calls of find_and_download_pdfs so far
  run_net,           \* the kinds of network request the current call has issued
  start_urls,        \* the url column as the current call loaded it
  save_failed,       \* has a metadata save of the current call failed
  last,              \* what the last step did
  content_disp, pdf_url,  \* the header and the url of a call of _extract_original_filename
  extracted          \* what that call returned, None before it

vars == << remote_metadata, remote_blacklist, blacklist_df, blacklist_urls,
           stop_event, ui, pc, error, csv_df, company_name, restrict_url,
           metadata_df, company, year_i, query, start_index, items, starts,
           runs, run_net, start_urls, save_failed, last,
           content_disp, pdf_url, extracted >>

remote == << remote_metadata, remote_blacklist >>
blacklist == << blacklist_df, blacklist_urls >>
call_args == << csv_df, company_name, restrict_url >>
loop_locals == << company, year_i, query, start_index, items, starts >>
extract == << content_disp, pdf_url, extracted >>
program == << remote, blacklist, stop_event, ui, pc, error, call_args, metadata_df,
              loop_locals, runs, run_net, start_urls, save_failed, last >>

\* the summary of a step that handled no candidate
NoItem(op) ==
  [op |-> op, link |-> EmptyStr, result |-> "", fetches |-> 0, puts |-> 0, rows |-> 0,
   path |-> EmptyStr]
\* the summary of a step that took one candidate of the page: the requests
\* to the link, the uploads tried and their path, the rows appended
Item(link, result, fetches, puts, rows, path) ==
  [op |-> "item", link |-> link, result |-> result,
   fetches |-> fetches, puts |-> puts, rows |-> rows, path |-> path]

Urls(df) == {df.rows[i].url : i \in 1..Len(df.rows)}

\* the program before app.py has imported dropbox_client
ProgramInit ==
  /\ remote_metadata = NotFound
  /\ blacklist_df = NoFrame
  /\ blacklist_urls = {}
  /\ stop_event = FALSE
  /\ ui = "ready"
  /\ pc = "import"
  /\ error = NoError
  /\ csv_df = NoCsv /\ company_name = None /\ restrict_url = FALSE
  /\ metadata_df = NoFrame
  /\ company = EmptyStr /\ year_i = 1 /\ query = EmptyStr
  /\ start_index = FirstStart /\ items = 0 /\ starts = << >>
  /\ runs = 0
  /\ run_net = {}
  /\ start_urls = {}
  /\ save_failed = FALSE
  /\ last = NoItem("init")

Init ==
  /\ ProgramInit
  /\ remote_blacklist \in BlacklistBlobs
  /\ content_disp = EmptyStr /\ pdf_url = EmptyStr /\ extracted = None

\* ------------------------------------------------------ dropbox_client.py
\* lines 73-74, with _load_blacklist_from_dropbox (27-53): the module is
\* executed once, when app.py imports it.
LoadBlacklistFromDropbox ==
  /\ UNCHANGED extract
  /\ pc = "import"
  /\ \E outcome \in {"ok", "not_found", "lookup_error", "api_error"} :
       /\ outcome = "ok" => remote_blacklist.exists
       /\ outcome = "not_found" => ~remote_blacklist.exists
       /\ CASE outcome = "ok" ->
                 \* line 34 returns the frame; line 74 makes the set
                 /\ blacklist_df' = [none |-> FALSE, columns |-> remote_blacklist.columns,
                                     rows |-> remote_blacklist.rows]
                 /\ blacklist_urls' =
                      {remote_blacklist.rows[i] : i \in 1..Len(remote_blacklist.rows)}
                 /\ pc' = "idle" /\ error' = NoError
                 /\ UNCHANGED remote_blacklist
            [] outcome = "not_found" ->
                 \* lines 41-50: the empty file is uploaded (or the upload raises);
                 \* nothing is returned, so line 74 subscripts None
                 /\ \E uploaded \in BOOLEAN :
                      /\ remote_blacklist' = IF uploaded THEN Blob(BLACKLIST_COLUMNS, << >>)
                                             ELSE remote_blacklist
                      /\ error' = IF uploaded THEN "TypeError" ELSE "ApiError"
                 /\ pc' = "import_failed"
                 /\ UNCHANGED << blacklist_df, blacklist_urls >>
            [] outcome = "lookup_error" ->
                 \* lines 51-53: a lookup error other than not_found is raised
                 /\ pc' = "import_failed" /\ error' = "ApiError"
                 /\ UNCHANGED << remote_blacklist, blacklist_df, blacklist_urls >>
            [] outcome = "api_error" ->
                 \* the if of line 39 has no else: None is returned to line 74
                 /\ pc' = "import_failed" /\ error' = "TypeError"
                 /\ UNCHANGED << remote_blacklist, blacklist_df, blacklist_urls >>
  /\ last' = NoItem(IF pc' = "idle" THEN "blacklist_ok"
                     ELSE IF ~remote_blacklist.exists /\ remote_blacklist'.exists
                     THEN "blacklist_created"
                     ELSE "blacklist_error")
  /\ UNCHANGED << remote_metadata, stop_event, ui, call_args,
                  metadata_df, loop_locals, runs, run_net, start_urls, save_failed >>

\* ----------------------------------------------------------------- app.py
WorkerAtRest == pc \in {"idle", "returned", "raised"}

\* the state a call of find_and_download_pdfs starts from
EnterCall(csv, name, restrict) ==
  /\ csv_df' = csv /\ company_name' = name /\ restrict_url' = restrict
  /\ metadata_df' = NoFrame
  /\ company' = EmptyStr /\ year_i' = 1 /\ query' = EmptyStr
  /\ start_index' = FirstStart /\ items' = 0 /\ starts' = << >>
  /\ runs' = runs + 1
  /\ run_net' = {} /\ start_urls' = {} /\ save_failed' = FALSE
  /\ error' = NoError

\* lines 135-163: the Start button. The thread is given the keyword arguments
\* stop_event and subfolder on top of those of the signature.
StartDownload ==
  /\ UNCHANGED extract
  /\ WorkerAtRest /\ ui /= "joining" /\ runs < MaxRuns
  /\ \E in \in CallInputs, restrict \in BOOLEAN : EnterCall(in[1], in[2], restrict)
  /\ stop_event' = FALSE
  /\ ui' = "joining"
  /\ pc' = "thread"
  /\ last' = NoItem("start_download")
  /\ UNCHANGED << remote, blacklist >>

\* threading.Thread.run: find_and_download_pdfs(**kwargs) with two keywords the
\* signature of lines 14-25 does not have
ThreadTarget ==
  /\ UNCHANGED extract
  /\ pc = "thread"
  /\ pc' = "raised" /\ error' = "TypeError"
  /\ last' = NoItem("thread")
  /\ UNCHANGED << remote, blacklist, stop_event, ui, call_args, metadata_df,
                  loop_locals, runs, run_net, start_urls, save_failed >>

\* lines 167-168: join returns when the thread has ended, however it ended,
\* and st.success is shown
JoinThread ==
  /\ UNCHANGED extract
  /\ ui = "joining" /\ pc \in {"returned", "raised"}
  /\ ui' = "ready"
  /\ last' = NoItem("success")
  /\ UNCHANGED << remote, blacklist, stop_event, pc, error, call_args,
                  metadata_df, loop_locals, runs, run_net, start_urls, save_failed >>

\* lines 173-175: the Stop button, when the script is not held in join()
StopDownloading ==
  /\ UNCHANGED extract
  /\ pc \notin {"import", "import_failed"} /\ ui /= "joining"
  /\ ~stop_event
  /\ stop_event' = TRUE
  /\ last' = NoItem("stop")
  /\ UNCHANGED << remote, blacklist, ui, pc, error, call_args, metadata_df,
                  loop_locals, runs, run_net, start_urls, save_failed >>

\* ------------------------------------------------------ pdf_downloader.py
\* find_and_download_pdfs called with the arguments of its signature (14-25),
\* blacklist_urls being the set of dropbox_client
FindAndDownloadPdfs ==
  /\ UNCHANGED extract
  /\ WorkerAtRest /\ ui /= "joining" /\ runs < MaxRuns
  /\ \E in \in CallInputs, restrict \in BOOLEAN : EnterCall(in[1], in[2], restrict)
  /\ pc' = "load"
  /\ last' = NoItem("call")
  /\ UNCHANGED << remote, blacklist, stop_event, ui >>

\* line 41 with _load_metadata_from_dropbox (234-255)
LoadMetadataFromDropbox ==
  /\ UNCHANGED extract
  /\ pc = "load"
  /\ run_net' = run_net \cup {"store_get"}
  /\ \E outcome \in {"ok", "not_found", "lookup_error", "api_error"} :
       /\ outcome = "ok" => remote_metadata.exists
       /\ outcome = "not_found" => ~remote_metadata.exists
       /\ CASE outcome = "ok" ->
                 /\ metadata_df' = ReadCsv(remote_metadata)
                 /\ pc' = "dispatch" /\ error' = NoError
            [] outcome = "not_found" ->
                 /\ metadata_df' = EmptyMetadata
                 /\ pc' = "dispatch" /\ error' = NoError
            [] outcome = "lookup_error" ->
                 \* lines 248-249: a lookup error that is not not_found leaves
                 \* both ifs without a return
                 /\ metadata_df' = NoFrame
                 /\ pc' = "dispatch" /\ error' = NoError
            [] outcome = "api_error" ->
                 \* lines 253-255
                 /\ metadata_df' = NoFrame
                 /\ pc' = "raised" /\ error' = "ApiError"
  /\ start_urls' = Urls(metadata_df')
  /\ last' = NoItem(IF remote_metadata.exists THEN "load"
                     ELSE IF pc' = "raised" \/ metadata_df'.none THEN "load_absent_error"
                     ELSE "load_not_found")
  /\ UNCHANGED << remote, blacklist, stop_event, ui, call_args, loop_locals,
                  runs, save_failed >>

\* lines 45-49: the first row of csv_df whose CompanyName is not empty
FirstCompany(csv) ==
  LET named == {i \in 1..Len(csv) : csv[i] /= EmptyStr}
  IN IF named = {} THEN None ELSE csv[CHOOSE i \in named : \A j \in named : i <= j]

\* lines 42-79
Dispatch ==
  /\ UNCHANGED extract
  /\ pc = "dispatch"
  /\ IF csv_df.given
     THEN \* lines 45-61: _search_and_download is called without metadata_df,
          \* a parameter that has no default (line 92)
          /\ IF FirstCompany(csv_df.rows) = None
             THEN pc' = "returned" /\ error' = NoError
             ELSE pc' = "raised" /\ error' = "TypeError"
          /\ last' = NoItem("batch")
          /\ UNCHANGED company
     ELSE IF company_name \in {None, EmptyStr}
          THEN \* lines 64-66
               /\ pc' = "returned" /\ error' = NoError
               /\ last' = NoItem("no_input")
               /\ UNCHANGED company
          ELSE \* lines 67-79
               /\ pc' = "year" /\ error' = NoError
               /\ company' = company_name
               /\ last' = NoItem("single")
  /\ UNCHANGED << remote, blacklist, stop_event, ui, call_args, metadata_df,
                  year_i, query, start_index, items, starts, runs, run_net,
                  start_urls, save_failed >>

\* line 108: for year in years, and line 110
ForYear ==
  /\ UNCHANGED extract
  /\ pc = "year"
  /\ IF year_i > Len(Years)
     THEN /\ pc' = "returned"
          /\ UNCHANGED << query, start_index, starts >>
     ELSE /\ pc' = "search"
          /\ query' = Query(company, Years[year_i])
          /\ start_index' = FirstStart
          /\ starts' = << >>
  /\ last' = NoItem("year")
  /\ UNCHANGED << remote, blacklist, stop_event, ui, error, call_args,
                  metadata_df, company, year_i, items, runs, run_net, start_urls,
                  save_failed >>

\* which page of the query start_index asks for
PageNo(start) == (start - FirstStart) \div PageSize + 1

\* line 114: range(1, 100, 10) yields no value from 100 on
RangeDoneLate(start) == start >= StopStart + PageSize
RangeDone(start) == start >= StopStart

\* lines 114-135: one turn of for start_index in range(1, 100, 10). The
\* search endpoint is taken to answer a 2xx with JSON, or to fail. A page is
\* any sequence of 1..max_items links: its length is drawn here, and each link
\* when the loop of line 137 comes to it. The engine answers the first
\* result_pages pages of a query with items.
SearchPage(result_pages, max_items) ==
  /\ pc = "search"
  /\ IF RangeDone(start_index)
     THEN \* the range is used up
          /\ pc' = "save"
          /\ last' = NoItem("pages_done")
          /\ UNCHANGED << items, starts, run_net >>
     ELSE /\ run_net' = run_net \cup {"search"}
          /\ starts' = Append(starts, start_index)
          /\ \/ \* lines 127-129: the request raised
                /\ pc' = "save" /\ last' = NoItem("search_error")
                /\ UNCHANGED items
             \/ \* lines 133-135: no items
                /\ pc' = "save" /\ last' = NoItem("search_empty")
                /\ UNCHANGED items
             \/ /\ PageNo(start_index) <= result_pages
                /\ \E n \in 1..max_items : items' = n
                /\ pc' = "items" /\ last' = NoItem("search_items")
  /\ UNCHANGED << remote, blacklist, stop_event, ui, error, call_args,
                  metadata_df, company, year_i, query, start_index, runs,
                  start_urls, save_failed >>

SearchRequest ==
  /\ UNCHANGED extract
  /\ SearchPage(MaxResultPages, MaxItems)

\* lines 137-165: one turn of for item in items, or its end
ForItem ==
  /\ UNCHANGED extract
  /\ pc = "items"
  /\ IF items = 0
     THEN \* the next turn of the loop of line 114
          /\ start_index' = start_index + PageSize
          /\ pc' = "search"
          /\ last' = NoItem("page_done")
          /\ UNCHANGED << metadata_df, company, items, run_net, error >>
     ELSE \E link \in Links :
          /\ items' = items - 1
          /\ UNCHANGED start_index
          /\ IF IsBlacklisted(link, blacklist_urls)
             THEN \* lines 140-142
                  /\ last' = Item(link, "blacklisted", 0, 0, 0, EmptyStr)
                  /\ UNCHANGED << metadata_df, company, run_net, pc, error >>
             ELSE IF IsRestricted(restrict_url, company, link)
             THEN \* lines 145-147
                  /\ last' = Item(link, "restricted", 0, 0, 0, EmptyStr)
                  /\ UNCHANGED << metadata_df, company, run_net, pc, error >>
             ELSE IF metadata_df.none
             THEN \* line 149: None is not subscriptable
                  /\ pc' = "raised" /\ error' = "TypeError"
                  /\ last' = Item(link, "raised", 0, 0, 0, EmptyStr)
                  /\ UNCHANGED << metadata_df, company, run_net >>
             ELSE IF InMetadata(link, metadata_df)
             THEN \* lines 149-151
                  /\ last' = Item(link, "in_metadata", 0, 0, 0, EmptyStr)
                  /\ UNCHANGED << metadata_df, company, run_net, pc, error >>
             ELSE IF Len(HostLabels(link)) < 2
             THEN \* line 154: list index out of range
                  /\ pc' = "raised" /\ error' = "IndexError"
                  /\ last' = Item(link, "raised", 0, 0, 0, EmptyStr)
                  /\ UNCHANGED << metadata_df, company, run_net >>
             ELSE \* lines 154-165: _download_pdf_to_dropbox is called twice. Each
                  \* call fetches and, when the fetch succeeded, uploads to
                  \* DropboxPath; whether the upload succeeded reaches the log
                  \* only (lines 195-201), and the uploaded PDFs are not tracked.
                  \E fetch1, fetch2 \in BOOLEAN :
                    LET comp == CompanyFromUrl(link)
                        original_filename ==
                          ExtractOriginalFilename(ContentDisposition(link), link)
                        year == Years[year_i]
                    IN /\ company' = comp
                       /\ metadata_df' =
                            IF fetch1
                            THEN Concat(metadata_df, NewRow(comp, year, link, original_filename))
                            ELSE metadata_df
                       /\ run_net' = run_net \cup {"fetch"}
                                       \cup (IF fetch1 \/ fetch2 THEN {"store_put"} ELSE {})
                       /\ last' = Item(link, "downloaded", 2,
                                       (IF fetch1 THEN 1 ELSE 0) + (IF fetch2 THEN 1 ELSE 0),
                                       IF fetch1 THEN 1 ELSE 0,
                                       IF fetch1 \/ fetch2
                                       THEN DropboxPath(comp, original_filename)
                                       ELSE EmptyStr)
                       /\ UNCHANGED << pc, error >>
  /\ UNCHANGED << remote_metadata, remote_blacklist, blacklist, stop_event, ui,
                  call_args, year_i, query, starts, runs, start_urls, save_failed >>

\* line 167 with _save_metadata_to_dropbox (257-271), then the next year
SaveMetadataToDropbox ==
  /\ UNCHANGED extract
  /\ pc = "save"
  /\ \E uploaded \in BOOLEAN :
       IF ~metadata_df.none /\ uploaded
       THEN /\ remote_metadata' = ToCsv(metadata_df)
            /\ run_net' = run_net \cup {"store_put"}
            /\ UNCHANGED save_failed
       ELSE \* lines 270-271: to_csv of None, or the upload, raised and was logged
            /\ save_failed' = TRUE
            /\ run_net' = IF metadata_df.none THEN run_net
                          ELSE run_net \cup {"store_put"}
            /\ UNCHANGED remote_metadata
  /\ year_i' = year_i + 1
  /\ pc' = "year"
  /\ last' = NoItem("save")
  /\ UNCHANGED << remote_blacklist, blacklist, stop_event, ui,
                  error, call_args, metadata_df, company, query, start_index, items,
                  starts, runs, start_urls >>

Next ==
  \/ LoadBlacklistFromDropbox
  \/ StartDownload
  \/ ThreadTarget
  \/ JoinThread
  \/ StopDownloading
  \/ FindAndDownloadPdfs
  \/ LoadMetadataFromDropbox
  \/ Dispatch
  \/ ForYear
  \/ SearchRequest
  \/ ForItem
  \/ SaveMetadataToDropbox

Spec == Init /\ [][Next]_vars

\* ------------------------------------- _extract_original_filename alone
\* a response with any of the headers, for any of the urls
InitExtract ==
  /\ ProgramInit
  /\ remote_blacklist = NotFound
  /\ content_disp \in Dispositions /\ pdf_url \in PdfUrls /\ extracted = None

\* lines 203-231, called once
ExtractCall ==
  /\ extracted = None
  /\ extracted' = ExtractOriginalFilename(content_disp, pdf_url)
  /\ UNCHANGED << program, content_disp, pdf_url >>

NextExtract == ExtractCall

SpecExtract == InitExtract /\ [][NextExtract]_vars

\* ------------------------------------ the page loop over its whole range
\* range(1, 100, 10) has ten values
PagesOfRange == (StopStart - FirstStart + PageSize - 1) \div PageSize

\* lines 114-135 with a search engine that may answer every page of the
\* range with an item
SearchRequestAnyPage ==
  /\ UNCHANGED extract
  /\ SearchPage(PagesOfRange, 1)

\* the worker alone: find_and_download_pdfs called directly
NextPages ==
  \/ LoadBlacklistFromDropbox
  \/ FindAndDownloadPdfs
  \/ LoadMetadataFromDropbox
  \/ Dispatch
  \/ ForYear
  \/ SearchRequestAnyPage
  \/ ForItem
  \/ SaveMetadataToDropbox

\* a call that has started runs on: Python executes the next statement, and
\* every request of the loop has a timeout
Running ==
  \/ LoadMetadataFromDropbox
  \/ Dispatch
  \/ ForYear
  \/ SearchRequestAnyPage
  \/ SaveMetadataToDropbox

\* the same for the loop over the items of a page, which can take a step
\* exactly when pc = "items": WF_vars(ForItem) with its ENABLED written out
ForItemRunsOn == []<>(pc /= "items") \/ []<><<ForItem>>_vars

SpecPages == Init /\ [][NextPages]_vars /\ WF_vars(Running) /\ ForItemRunsOn

\* ================================================================ claims
\* a step of ForItem that took one candidate of the page
TookCandidate == pc = "items" /\ items' = items - 1
\* the frame after the step holds the frame before it plus one row for link
AppendedRowFor(link) ==
  /\ ~metadata_df.none /\ ~metadata_df'.none
  /\ Len(metadata_df'.rows) = Len(metadata_df.rows) + 1
  /\ SubSeq(metadata_df'.rows, 1, Len(metadata_df.rows)) = metadata_df.rows
  /\ metadata_df'.rows[Len(metadata_df'.rows)].url = link

\* C1: a candidate whose url is in the url column of metadata_df when the loop
\* comes to it is neither fetched nor given a row; a row is only ever appended
\* for the candidate of the step, whose url was neither loaded at the start
\* of the run nor appended earlier in it.
C1_Dedup ==
  [][ /\ TookCandidate =>
           /\ last'.link \in Urls(metadata_df) =>
                last'.fetches = 0 /\ last'.rows = 0 /\ metadata_df' = metadata_df
           /\ metadata_df' /= metadata_df =>
                /\ AppendedRowFor(last'.link)
                /\ last'.link \notin Urls(metadata_df)
                /\ last'.link \notin start_urls
      /\ (pc \in {"year", "search", "items", "save"} /\ ~TookCandidate) =>
           metadata_df' = metadata_df ]_vars
\* a second run has skipped a candidate whose url it loaded from the store
C1_Witness ==
  /\ runs = 2 /\ last.op = "item" /\ last.link = LinkA
  /\ LinkA \in start_urls /\ last.fetches = 0 /\ last.rows = 0

\* the blacklist test of the claim, from the set of dropbox_client
HasBlacklistedSubstring(link) ==
  \E bad \in blacklist_urls : IsSubstr(Lower(bad), Lower(link))

\* C2: a candidate whose url holds a blacklist entry, whatever the case of
\* either, is not fetched, not uploaded and gets no row, in every run and at
\* every place of the page.
C2_BlacklistFilter ==
  [][ (TookCandidate /\ HasBlacklistedSubstring(last'.link)) =>
        /\ last'.fetches = 0 /\ last'.puts = 0 /\ last'.rows = 0
        /\ metadata_df' = metadata_df ]_vars
\* the entry BAD.com has kept https://www.Bad.com/acme.pdf out
C2_Witness ==
  /\ last.op = "item" /\ last.link = LinkC /\ BadCom \in blacklist_urls
  /\ last.fetches = 0 /\ last.puts = 0

\* C3: with restrict_url set, no candidate whose lowered url lacks the lowered
\* target of the call is fetched or given a row, also after an earlier
\* candidate of the same target was downloaded.
C3_NameRestriction ==
  [][ (TookCandidate /\ restrict_url
       /\ ~IsSubstr(Lower(company_name), Lower(last'.link))) =>
        /\ last'.fetches = 0 /\ last'.rows = 0
        /\ metadata_df' = metadata_df ]_vars

\* C4: when stop_event is set while the worker is in the loop over the items
\* of a page, the candidate it takes next is neither fetched nor given a row.
C4_CancellationPromptness ==
  [][ (stop_event /\ last.op = "stop" /\ TookCandidate) =>
        /\ last'.fetches = 0 /\ last'.rows = 0
        /\ metadata_df' = metadata_df ]_vars

\* C5: while a run is in its loop and none of its saves has failed, the
\* ledger in the store lacks at most one row of metadata_df.
C5_PersistedPerAttempt ==
  (pc \in {"year", "search", "items", "save"} /\ ~metadata_df.none /\ ~save_failed) =>
    Len(metadata_df.rows) - Len(remote_metadata.rows) <= 1

\* C6: every candidate that passed the three filters has exactly one row
\* appended for it, whether its fetch succeeded or failed.
C6_OneRowPerAttempt ==
  (last.op = "item" /\ last.result = "downloaded") => last.rows = 1

\* C7: no exception raised while a candidate is processed leaves the loop
\* (stated for the runs that loaded a frame: a run whose load returned None
\* raises at line 149 for the first candidate that reaches it).
C7_ErrorsNeverAbort ==
  ~(pc = "raised" /\ last.op = "item" /\ ~metadata_df.none)

\* C8: the call that is given neither csv_df nor company_name returns without
\* having issued any request to the store, the search or a link.
C8_ConfigErrorBeforeNetwork ==
  last.op = "no_input" => run_net = {}

\* the columns of the Ledger Row; company and year are its target and period
LedgerRowColumns == {"target", "period", "url", "filename", "scope", "query", "status"}
LedgerColumnOf(c) ==
  CASE c = "company" -> "target" [] c = "year" -> "period" [] OTHER -> c
\* C9: a metadata.csv that is absent is loaded as an empty frame with exactly
\* the columns of the Ledger Row, and a blacklist.csv that is absent is
\* loaded as an empty blacklist the run can filter with.
C9_LoadBootstrap ==
  /\ last.op = "load_not_found" =>
       /\ ~metadata_df.none /\ metadata_df.rows = << >>
       /\ {LedgerColumnOf(metadata_df.columns[i]) : i \in 1..Len(metadata_df.columns)}
            = LedgerRowColumns
  /\ last.op = "blacklist_created" =>
       pc = "idle" /\ ~blacklist_df.none /\ blacklist_urls = {}

\* C10: the company of the row of a downloaded candidate, which is also the
\* folder of its Dropbox path, is the second-to-last label of the url's host.
C10_EffectiveTargetLabel ==
  (last.op = "item" /\ last.rows = 1) =>
    LET labels == HostLabels(last.link)
        row == metadata_df.rows[Len(metadata_df.rows)]
    IN /\ Len(labels) >= 2
       /\ row.company = labels[Len(labels) - 1]
       /\ last.path = Root \o labels[Len(labels) - 1] \o Slash \o row.filename

\* what the claim calls the filename hint: the text after the first
\* "filename=", found whatever the case of the header, less the quotes
\* around it
FilenameHint(header) ==
  LET low == Lower(header)
      at == CHOOSE i \in 1..Len(header) :
              /\ SubSeq(low, i, i + Len(FilenameEq) - 1) = FilenameEq
              /\ \A j \in 1..(i - 1) : SubSeq(low, j, j + Len(FilenameEq) - 1) /= FilenameEq
  IN Strip(Strip(SubSeq(header, at + Len(FilenameEq), Len(header)), {" "}), {"\"", "'"})
\* the last segment of the path of the url, the query and the fragment left out
LastPathSegment(url) == Basename(UrlPath(url))

\* C11: the filename returned is the hint of the Content-Disposition header
\* when the header has one, in whatever case; else the last path segment of
\* the url without query and fragment; else, that segment being empty,
\* "unknown.pdf".
C11_FilenamePriority ==
  extracted /= None =>
    extracted = IF IsSubstr(FilenameEq, Lower(content_disp))
                THEN FilenameHint(content_disp)
                ELSE IF LastPathSegment(pdf_url) /= EmptyStr
                THEN LastPathSegment(pdf_url)
                ELSE UnknownPdf

\* the start offsets of the claim
Offsets == << 1, 11, 21, 31, 41, 51, 61, 71, 81, 91 >>
\* a step that sent a search request
SentRequest == Len(starts') > Len(starts)

\* C12: the requests of one query are a prefix of the offsets 1, 11, ..., 91
\* in that order, so at most ten; a request is only sent when the query has
\* just been composed or a page that had items has been gone through, never
\* after an empty or failed page; and the page loop of every query ends.
C12_PaginationBound ==
  /\ [][ /\ Len(starts') <= Len(Offsets)
         /\ \A i \in 1..Len(starts') : starts'[i] = Offsets[i]
         /\ SentRequest =>
              /\ starts' = Append(starts, Offsets[Len(starts) + 1])
              /\ last.op \in {"year", "page_done"}
         /\ last.op \in {"search_error", "search_empty"} => ~SentRequest ]_vars
  /\ (pc = "search" ~> pc \in {"save", "raised"})
\* the tenth request of a query, start=91, was answered with an item and the
\* range ended the loop
C12_Witness ==
  /\ last.op = "pages_done" /\ pc = "save"
  /\ Len(starts) = 10 /\ starts[10] = 91

\* C13: a call whose load of metadata.csv failed for another reason than
\* not-found, and so has no frame, has stopped with the error: it does not go
\* on to the searches with None for a ledger.
C13_FatalLoadErrors ==
  ("store_get" \in run_net /\ metadata_df.none) => pc = "raised"

\* C14: a call with a csv_df that names a company goes on to the years of
\* the first row that has a name, the rows without one being skipped.
C14_BatchIteration ==
  (last.op = "batch" /\ FirstCompany(csv_df.rows) /= None) =>
    /\ pc = "year" /\ error = NoError
    /\ company = FirstCompany(csv_df.rows)

\* C15: the query of every year of a single-company call is composed from
\* the company_name the call was given.
C15_QueryComposition ==
  (pc = "search" /\ ~csv_df.given) => query = Query(company_name, Years[year_i])

\* C16: while the thread the Start button made has not ended, the script is
\* not held waiting for it, so that Stop can be pressed; and after Start the
\* stop_event is clear.
C16_CallerResponsiveness ==
  /\ pc = "thread" => ui /= "joining"
  /\ last.op = "start_download" => ~stop_event

\* C17: a candidate that passed the three filters is requested once, and its
\* payload uploaded at most once.
C17_SingleFetch ==
  (last.op = "item" /\ last.result = "downloaded") =>
    last.fetches = 1 /\ last.puts <= 1

====
